---- MODULE Spec2Model ----
(***************************************************************************)
(* Workspace preparation plugin (src/main.py): one run of main(), the      *)
(* three action workflows, fetch_tags_from_api with its retry loop,        *)
(* safe_json_parse, export_env_var and the DroneOutputManager.             *)
(*                                                                         *)
(* A Python str is a sequence of one-character strings; "NUL" stands for   *)
(* the character U+0000.  A decoded JSON value is a record                 *)
(* [t, s, kv]: t is the type, s the text of a string or number, kv the     *)
(* members of an object as [k, v] pairs in insertion order (dict order)    *)
(* or the items of an array (k = <<>>).                                    *)
(***************************************************************************)
EXTENDS Integers, Sequences, FiniteSets, TLC

----------------------------------------------------------------------------
(* Characters and str methods *)

NUL == "NUL"

Whitespace == {" ", "\t", "\n"}

Digits == <<"0","1","2","3","4","5","6","7","8","9">>

UpperCase ==
    <<"A","B","C","D","E","F","G","H","I","J","K","L","M",
      "N","O","P","Q","R","S","T","U","V","W","X","Y","Z">>

LowerCase ==
    <<"a","b","c","d","e","f","g","h","i","j","k","l","m",
      "n","o","p","q","r","s","t","u","v","w","x","y","z">>

IsDigit(c) == \E i \in 1..Len(Digits) : Digits[i] = c

DigitVal(c) == (CHOOSE i \in 1..Len(Digits) : Digits[i] = c) - 1

LowerChar(c) ==
    IF \E i \in 1..Len(UpperCase) : UpperCase[i] = c
    THEN LowerCase[CHOOSE i \in 1..Len(UpperCase) : UpperCase[i] = c]
    ELSE c

\* str.lower()
str_lower(s) == [i \in 1..Len(s) |-> LowerChar(s[i])]

\* str.replace('-', '_')
replace_hyphen(s) == [i \in 1..Len(s) |-> IF s[i] = "-" THEN "_" ELSE s[i]]

RECURSIVE lstrip(_)
lstrip(s) == IF s # <<>> /\ Head(s) \in Whitespace THEN lstrip(Tail(s)) ELSE s

RECURSIVE rstrip(_)
rstrip(s) ==
    IF s # <<>> /\ s[Len(s)] \in Whitespace THEN rstrip(SubSeq(s, 1, Len(s) - 1)) ELSE s

\* str.strip()
strip(s) == rstrip(lstrip(s))

\* str.split(','): always at least one piece
RECURSIVE split_comma(_)
split_comma(s) ==
    IF \E i \in 1..Len(s) : s[i] = ","
    THEN LET i == CHOOSE j \in 1..Len(s) : s[j] = "," /\ \A m \in 1..(j - 1) : s[m] # ","
         IN  <<SubSeq(s, 1, i - 1)>> \o split_comma(SubSeq(s, i + 1, Len(s)))
    ELSE <<s>>

\* str.startswith('<+')
startswith_expr(s) == Len(s) >= 2 /\ s[1] = "<" /\ s[2] = "+"

\* sub in s, for two str
str_contains(s, sub) ==
    \E i \in 0..(Len(s) - Len(sub)) : SubSeq(s, i + 1, i + Len(sub)) = sub

HasNul(s) == \E i \in 1..Len(s) : s[i] = NUL

RECURSIVE NatToStr(_)
NatToStr(n) == IF n < 10 THEN <<Digits[n + 1]>> ELSE NatToStr(n \div 10) \o <<Digits[(n % 10) + 1]>>

\* str(n) / f"{n}" of an int
IntToStr(n) == IF n < 0 THEN <<"-">> \o NatToStr(0 - n) ELSE NatToStr(n)

RECURSIVE DigitsToNat(_)
DigitsToNat(s) ==
    IF s = <<>> THEN 0 ELSE 10 * DigitsToNat(SubSeq(s, 1, Len(s) - 1)) + DigitVal(s[Len(s)])

\* int(s): surrounding whitespace, one optional sign, digits with single
\* underscores between them; anything else is a ValueError (ok = FALSE)
int_parse(s) ==
    LET t    == strip(s)
        sgn  == t # <<>> /\ t[1] \in {"+", "-"}
        body == IF sgn THEN Tail(t) ELSE t
        good == /\ body # <<>>
                /\ \A i \in 1..Len(body) : IsDigit(body[i]) \/ body[i] = "_"
                /\ IsDigit(body[1]) /\ IsDigit(body[Len(body)])
                /\ \A i \in 1..(Len(body) - 1) : ~(body[i] = "_" /\ body[i + 1] = "_")
        ds   == SelectSeq(body, IsDigit)
        mag  == DigitsToNat(ds)
    IN  IF good THEN [ok |-> TRUE, val |-> IF sgn /\ t[1] = "-" THEN 0 - mag ELSE mag]
        ELSE [ok |-> FALSE, val |-> 0]

\* Python sequence indexing seq[i], zero-based, negative i counting from the
\* end; ok = FALSE is an IndexError
py_index(seq, i) ==
    IF i >= 0 /\ i < Len(seq) THEN [ok |-> TRUE, val |-> seq[i + 1]]
    ELSE IF i < 0 /\ i >= 0 - Len(seq) THEN [ok |-> TRUE, val |-> seq[Len(seq) + i + 1]]
    ELSE [ok |-> FALSE, val |-> <<>>]

----------------------------------------------------------------------------
(* String constants of the program *)

DefaultAction ==
    <<"<","+","p","i","p","e","l","i","n","e",".","v","a","r","i","a","b","l","e","s",
      ".","a","c","t","i","o","n",">">>
DefaultComponentName ==
    <<"<","+","p","i","p","e","l","i","n","e",".","v","a","r","i","a","b","l","e","s",
      ".","c","o","m","p","o","n","e","n","t","_","n","a","m","e",">">>
DefaultIteration ==
    <<"<","+","s","t","r","a","t","e","g","y",".","i","t","e","r","a","t","i","o","n",
      ">">>
DefaultRepeatItem ==
    <<"<","+","r","e","p","e","a","t",".","i","t","e","m",">">>
DefaultAssetId ==
    <<"<","+","p","i","p","e","l","i","n","e",".","v","a","r","i","a","b","l","e","s",
      ".","a","s","s","e","t","_","i","d",">">>
DefaultCloudProject ==
    <<"<","+","p","i","p","e","l","i","n","e",".","v","a","r","i","a","b","l","e","s",
      ".","c","l","o","u","d","_","p","r","o","j","e","c","t",">">>
DefaultDeploymentName ==
    <<"<","+","p","i","p","e","l","i","n","e",".","s","t","a","g","e","s",".","C","r",
      "e","a","t","e","_","D","e","p","l","o","y","m","e","n","t",".","s","p","e","c",
      ".","e","x","e","c","u","t","i","o","n",".","s","t","e","p","s",".","P","r","e",
      "p","_","S","t","a","g","e",".","o","u","t","p","u","t",".","o","u","t","p","u",
      "t","V","a","r","i","a","b","l","e","s",".","D","E","P","L","O","Y","M","E","N",
      "T","_","N","A","M","E",">">>
DefaultOrgIdentifier ==
    <<"<","+","o","r","g",".","i","d","e","n","t","i","f","i","e","r",">">>
DefaultProjectIdentifier ==
    <<"<","+","p","r","o","j","e","c","t",".","i","d","e","n","t","i","f","i","e","r",
      ">">>
DefaultResourceOwner ==
    <<"<","+","p","i","p","e","l","i","n","e",".","s","t","a","g","e","s",".","C","r",
      "e","a","t","e","_","D","e","p","l","o","y","m","e","n","t",".","s","p","e","c",
      ".","e","x","e","c","u","t","i","o","n",".","s","t","e","p","s",".","P","r","e",
      "p","_","S","t","a","g","e",".","o","u","t","p","u","t",".","o","u","t","p","u",
      "t","V","a","r","i","a","b","l","e","s",".","R","E","S","O","U","R","C","E","_",
      "O","W","N","E","R",">">>
K_module_name ==
    <<"m","o","d","u","l","e","_","n","a","m","e">>
K_cloud_project ==
    <<"c","l","o","u","d","_","p","r","o","j","e","c","t">>
K_connector ==
    <<"c","o","n","n","e","c","t","o","r">>
K_type ==
    <<"t","y","p","e">>
K_show_advanced ==
    <<"s","h","o","w","_","a","d","v","a","n","c","e","d">>
K_resource_name ==
    <<"r","e","s","o","u","r","c","e","_","n","a","m","e">>
K_entries ==
    <<"e","n","t","r","i","e","s">>
K_cdk_std_tags ==
    <<"c","d","k","_","s","t","d","_","t","a","g","s">>
K_properties ==
    <<"p","r","o","p","e","r","t","i","e","s">>
K_tags ==
    <<"t","a","g","s">>
S_delete ==
    <<"d","e","l","e","t","e">>
S_update ==
    <<"u","p","d","a","t","e">>
S_create ==
    <<"c","r","e","a","t","e">>
S_account ==
    <<"a","c","c","o","u","n","t">>
S_None ==
    <<"N","o","n","e">>
S_null ==
    <<"n","u","l","l">>
----------------------------------------------------------------------------
(* Decoded JSON values *)

StrVal(s) == [t |-> "str", s |-> s, kv |-> <<>>]

NumVal(n) == [t |-> "num", s |-> IntToStr(n), kv |-> <<>>]

NullVal == [t |-> "null", s |-> <<>>, kv |-> <<>>]

KV(k, v) == [k |-> k, v |-> v]

Obj(members) == [t |-> "obj", s |-> <<>>, kv |-> members]

Arr(items) == [t |-> "arr", s |-> <<>>, kv |-> [i \in 1..Len(items) |-> KV(<<>>, items[i])]]

EmptyDict == Obj(<<>>)

HasKey(o, k) == \E i \in 1..Len(o.kv) : o.kv[i].k = k

\* dict.get(k, default)
dict_get(o, k, default) ==
    IF HasKey(o, k) THEN o.kv[CHOOSE i \in 1..Len(o.kv) : o.kv[i].k = k].v ELSE default

\* d[k] = v: replaces in place, or appends as the last key
dict_set(o, k, v) ==
    IF HasKey(o, k)
    THEN Obj([i \in 1..Len(o.kv) |-> IF o.kv[i].k = k THEN KV(k, v) ELSE o.kv[i]])
    ELSE Obj(Append(o.kv, KV(k, v)))

Keys(o) == {o.kv[i].k : i \in 1..Len(o.kv)}

\* bool(v)
Truthy(v) ==
    CASE v.t = "str"  -> v.s # <<>>
      [] v.t = "num"  -> \E i \in 1..Len(v.s) : v.s[i] \notin {"0", "-"}
      [] v.t = "null" -> FALSE
      [] OTHER        -> v.kv # <<>>

RECURSIVE JoinSeq(_, _)
JoinSeq(parts, sep) ==
    IF parts = <<>> THEN <<>>
    ELSE IF Len(parts) = 1 THEN parts[1]
    ELSE parts[1] \o sep \o JoinSeq(Tail(parts), sep)

EscapeJsonChar(c) ==
    CASE c = NUL  -> <<"\\","u","0","0","0","0">>
      [] c = "\"" -> <<"\\","\"">>
      [] c = "\\" -> <<"\\","\\">>
      [] c = "\n" -> <<"\\","n">>
      [] c = "\t" -> <<"\\","t">>
      [] OTHER    -> <<c>>

JsonQuote(s) == <<"\"">> \o JoinSeq([i \in 1..Len(s) |-> EscapeJsonChar(s[i])], <<>>) \o <<"\"">>

\* json.dumps(v, separators=(',', ':'))
RECURSIVE json_dumps(_)
json_dumps(v) ==
    CASE v.t = "str"  -> JsonQuote(v.s)
      [] v.t = "num"  -> v.s
      [] v.t = "null" -> S_null
      [] v.t = "obj"  ->
           <<"{">> \o JoinSeq([i \in 1..Len(v.kv) |->
                        JsonQuote(v.kv[i].k) \o <<":">> \o json_dumps(v.kv[i].v)], <<",">>)
                   \o <<"}">>
      [] OTHER        ->
           <<"[">> \o JoinSeq([i \in 1..Len(v.kv) |-> json_dumps(v.kv[i].v)], <<",">>)
                   \o <<"]">>

ReprChar(c) ==
    CASE c = NUL  -> <<"\\","x","0","0">>
      [] c = "\\" -> <<"\\","\\">>
      [] c = "'"  -> <<"\\","'">>
      [] c = "\n" -> <<"\\","n">>
      [] c = "\t" -> <<"\\","t">>
      [] OTHER    -> <<c>>

ReprStr(s) == <<"'">> \o JoinSeq([i \in 1..Len(s) |-> ReprChar(s[i])], <<>>) \o <<"'">>

\* repr(v) of a decoded JSON value
RECURSIVE py_repr(_)
py_repr(v) ==
    CASE v.t = "str"  -> ReprStr(v.s)
      [] v.t = "num"  -> v.s
      [] v.t = "null" -> S_None
      [] v.t = "obj"  ->
           <<"{">> \o JoinSeq([i \in 1..Len(v.kv) |->
                        ReprStr(v.kv[i].k) \o <<":", " ">> \o py_repr(v.kv[i].v)], <<",", " ">>)
                   \o <<"}">>
      [] OTHER        ->
           <<"[">> \o JoinSeq([i \in 1..Len(v.kv) |-> py_repr(v.kv[i].v)], <<",", " ">>)
                   \o <<"]">>

\* str(v), also what an f-string inserts
py_str(v) == IF v.t = "str" THEN v.s ELSE py_repr(v)

----------------------------------------------------------------------------
(* JSON text.  A JSON input string is carried as its length in characters, *)
(* whether it is whitespace-only, and the value json.loads decodes it to   *)
(* (Malformed when json.loads raises JSONDecodeError).                     *)

Malformed == [t |-> "malformed", s |-> <<>>, kv |-> <<>>]

MaxJsonSize == 1048576

\* the compact text of value v
JsonText(v) == [size |-> Len(json_dumps(v)), blank |-> FALSE, decoded |-> v]

\* a text json.loads rejects, n characters long
BadText(n) == [size |-> n, blank |-> FALSE, decoded |-> Malformed]

\* n whitespace characters
BlankText(n) == [size |-> n, blank |-> TRUE, decoded |-> Malformed]

\* a well-formed text longer than the size limit
HugeText(v) == [size |-> MaxJsonSize + 1, blank |-> FALSE, decoded |-> v]

\* safe_json_parse(json_str, config_name); err # "none" is the ValueError raised
\* the size test made before the emptiness test
safe_json_parse_size_first(doc) ==
    IF doc.size > MaxJsonSize
    THEN [err |-> "size", val |-> EmptyDict]
    ELSE IF doc.size = 0 \/ doc.blank
    THEN [err |-> "none", val |-> EmptyDict]
    ELSE IF doc.decoded.t = "malformed"
    THEN [err |-> "malformed", val |-> EmptyDict]
    ELSE [err |-> "none", val |-> doc.decoded]

safe_json_parse(doc) ==
    IF doc.size = 0 \/ doc.blank
    THEN [err |-> "none", val |-> EmptyDict]
    ELSE IF doc.size > MaxJsonSize
    THEN [err |-> "size", val |-> EmptyDict]
    ELSE IF doc.decoded.t = "malformed"
    THEN [err |-> "malformed", val |-> EmptyDict]
    ELSE [err |-> "none", val |-> doc.decoded]

\* '<+pipeline.stages. ... .outputVariables.RESOURCE_CONFIG>', 107 characters, not JSON
\* the ValueError safe_json_parse raises: the JSONDecodeError clause names
\* the label after "Invalid JSON in ", the size error is re-wrapped by the
\* `except Exception` clause after "Unexpected error parsing "
parse_error(err, config_name) ==
    [type |-> "ValueError",
     prefix |-> IF err = "malformed" THEN "Invalid JSON in " ELSE "Unexpected error parsing ",
     config_name |-> config_name]

DefaultResourceConfig == BadText(107)

\* '<+pipeline.stages. ... .outputVariables.item_map>', 100 characters, not JSON
DefaultItemMap == BadText(100)

\* len(v): TypeError for a number or None
py_len(v) ==
    CASE v.t = "str"          -> [exc |-> "none", val |-> Len(v.s)]
      [] v.t \in {"obj", "arr"} -> [exc |-> "none", val |-> Len(v.kv)]
      [] OTHER                -> [exc |-> "TypeError", val |-> 0]

\* v[i] for an int i
py_getitem(v, i) ==
    CASE v.t = "arr" ->
           IF py_index(v.kv, i).ok
           THEN [exc |-> "none", val |-> py_index(v.kv, i).val.v]
           ELSE [exc |-> "IndexError", val |-> NullVal]
      [] v.t = "str" ->
           IF py_index(v.s, i).ok
           THEN [exc |-> "none", val |-> StrVal(<<py_index(v.s, i).val>>)]
           ELSE [exc |-> "IndexError", val |-> NullVal]
      [] v.t = "obj" -> [exc |-> "KeyError", val |-> NullVal]
      [] OTHER       -> [exc |-> "TypeError", val |-> NullVal]

\* {k: v for k, v in d.items() if k not in drop}
filter_keys(d, drop) == Obj(SelectSeq(d.kv, LAMBDA m : m.k \notin drop))

\* normalize_name(name)
\* lower-casing only
normalize_name_lower_only(name) == str_lower(name)

normalize_name(name) == replace_hyphen(str_lower(name))

----------------------------------------------------------------------------
(* fetch_tags_from_api: one attempt *)

NoBody == BadText(0)

UrlError == [kind |-> "URLError", code |-> 0, body |-> NoBody]

SocketTimeout == [kind |-> "timeout", code |-> 0, body |-> NoBody]

HttpError(code) == [kind |-> "HTTPError", code |-> code, body |-> NoBody]

HttpResponse(status, body) == [kind |-> "response", code |-> status, body |-> body]

\* tags_map built from properties.tags, lines 496-501
RECURSIVE coerce_tags(_)
coerce_tags(members) ==
    IF members = <<>> THEN <<>>
    ELSE LET m == Head(members)
             rest == coerce_tags(Tail(members))
         IN  IF strip(m.k) # <<>>
             THEN <<KV(m.k, IF m.v.t = "null" THEN StrVal(<<>>) ELSE StrVal(py_str(m.v)))>> \o rest
             ELSE rest

\* the body of `if response.status == 200:` once the text is decoded
tags_from_data(data) ==
    IF ~Truthy(data)
    THEN [act |-> "return", tags |-> EmptyDict]
    ELSE IF py_len(data).exc # "none" \/ py_getitem(data, 0).exc # "none"
    THEN [act |-> "retry", tags |-> EmptyDict]
    ELSE LET first == py_getitem(data, 0).val
         IN  IF first.t # "obj"
             THEN [act |-> "retry", tags |-> EmptyDict]
             ELSE LET properties == dict_get(first, K_properties, EmptyDict)
                  IN  IF properties.t # "obj"
                      THEN [act |-> "return", tags |-> EmptyDict]
                      ELSE LET tags == dict_get(properties, K_tags, EmptyDict)
                           IN  IF tags.t # "obj"
                               THEN [act |-> "return", tags |-> EmptyDict]
                               ELSE [act |-> "return", tags |-> Obj(coerce_tags(tags.kv))]

\* the client-error test written 400 < code
attempt_result_400_retried(resp) ==
    CASE resp.kind = "response" ->
           IF resp.code = 200
           THEN IF resp.body.blank \/ resp.body.decoded.t = "malformed"
                THEN [act |-> "retry", tags |-> EmptyDict]
                ELSE tags_from_data(resp.body.decoded)
           ELSE [act |-> "return", tags |-> EmptyDict]
      [] resp.kind = "HTTPError" ->
           IF 400 < resp.code /\ resp.code < 500
           THEN [act |-> "break", tags |-> EmptyDict]
           ELSE [act |-> "retry", tags |-> EmptyDict]
      [] OTHER -> [act |-> "retry", tags |-> EmptyDict]

\* what the try/except of one loop iteration does with the transport's
\* answer: return a map, break out of the loop, or go on to the backoff
attempt_result(resp) ==
    CASE resp.kind = "response" ->
           IF resp.code = 200
           THEN IF resp.body.blank \/ resp.body.decoded.t = "malformed"
                THEN [act |-> "retry", tags |-> EmptyDict]
                ELSE tags_from_data(resp.body.decoded)
           ELSE [act |-> "return", tags |-> EmptyDict]
      [] resp.kind = "HTTPError" ->
           IF 400 <= resp.code /\ resp.code < 500
           THEN [act |-> "break", tags |-> EmptyDict]
           ELSE [act |-> "retry", tags |-> EmptyDict]
      [] OTHER -> [act |-> "retry", tags |-> EmptyDict]

\* the backoff starting at 2 seconds
wait_time_doubled(attempt) == 2 * (2 ^ attempt)

\* wait_time = 2 ** attempt
RECURSIVE Pow2(_)
Pow2(n) == IF n = 0 THEN 1 ELSE 2 * Pow2(n - 1)

wait_time(attempt) == Pow2(attempt)

\* the backoff test written attempt < retry_attempts
should_backoff_always(attempt, retry_attempts) == attempt < retry_attempts

\* `if attempt < retry_attempts - 1`: sleep before the next attempt
should_backoff(attempt, retry_attempts) == attempt < retry_attempts - 1

\* `for attempt in range(retry_attempts)`: there is an iteration after this one
loop_continues(attempt, retry_attempts) == attempt + 1 < retry_attempts

\* retry_attempts: int = 3
DefaultRetryAttempts == 3

----------------------------------------------------------------------------
(* The three workflows, up to their export_env_var calls *)

\* the update list without 'type'
UpdateDropKeys_no_type == {K_module_name, K_cloud_project, K_show_advanced}

UpdateDropKeys == {K_module_name, K_cloud_project, K_type, K_show_advanced}

CreateDropKeys == {K_module_name, K_connector, K_type, K_show_advanced}

\* [name.strip() for name in component_name_list.split(',')]
component_names(component_name_list) ==
    LET parts == split_comma(component_name_list)
    IN  [i \in 1..Len(parts) |-> strip(parts[i])]

\* the range check written with > instead of >=
select_component_gt(component_name_list, iteration) ==
    LET names == component_names(component_name_list)
    IN  IF iteration > Len(names)
        THEN [exc |-> "ValueError", val |-> <<>>]
        ELSE IF ~py_index(names, iteration).ok
        THEN [exc |-> "IndexError", val |-> <<>>]
        ELSE [exc |-> "none", val |-> py_index(names, iteration).val]

\* the range check and component_names[iteration]
select_component(component_name_list, iteration) ==
    LET names == component_names(component_name_list)
    IN  IF iteration >= Len(names)
        THEN [exc |-> "ValueError", val |-> <<>>]
        ELSE IF ~py_index(names, iteration).ok
        THEN [exc |-> "IndexError", val |-> <<>>]
        ELSE [exc |-> "none", val |-> py_index(names, iteration).val]

NoPrep ==
    [exc |-> "none", current_component |-> <<>>, connector |-> <<>>,
     module_name |-> NullVal, resource_name |-> NullVal, resource_type |-> NullVal,
     filtered |-> EmptyDict]

Failed(e) == [NoPrep EXCEPT !.exc = e]

\* process_update_action from the split to the filtered variables
update_prepare(component_name_list, iteration, resource_config_str, cloud_project) ==
    LET comp   == select_component(component_name_list, iteration)
        parsed == safe_json_parse(resource_config_str)
    IN  IF comp.exc # "none" THEN Failed(comp.exc)
        ELSE IF parsed.err # "none" THEN Failed("ValueError")
        ELSE IF parsed.val.t # "obj" THEN Failed("AttributeError")
        ELSE LET entries == dict_get(parsed.val, K_entries, Arr(<<>>))
             IN  IF py_len(entries).exc # "none" THEN Failed(py_len(entries).exc)
                 ELSE IF iteration >= py_len(entries).val THEN Failed("ValueError")
                 ELSE IF py_getitem(entries, iteration).exc # "none"
                 THEN Failed(py_getitem(entries, iteration).exc)
                 ELSE LET workspace_vars == py_getitem(entries, iteration).val
                      IN  IF workspace_vars.t # "obj" THEN Failed("AttributeError")
                          ELSE [exc |-> "none",
                                current_component |-> comp.val,
                                connector |-> replace_hyphen(cloud_project),
                                module_name |-> dict_get(workspace_vars, K_module_name, StrVal(<<>>)),
                                resource_name |-> dict_get(workspace_vars, K_resource_name, StrVal(<<>>)),
                                resource_type |-> dict_get(workspace_vars, K_type, StrVal(<<>>)),
                                filtered |-> filter_keys(workspace_vars, UpdateDropKeys)]

\* what `for item in item_map` iterates over
iter_items(v) ==
    CASE v.t = "arr" -> [exc |-> "none", items |-> [i \in 1..Len(v.kv) |-> v.kv[i].v]]
      [] v.t = "obj" -> [exc |-> "none", items |-> [i \in 1..Len(v.kv) |-> StrVal(v.kv[i].k)]]
      [] v.t = "str" -> [exc |-> "none", items |-> [i \in 1..Len(v.s) |-> StrVal(<<v.s[i]>>)]]
      [] OTHER       -> [exc |-> "TypeError", items |-> <<>>]

\* repeat_item in item
item_contains(item, repeat_item) ==
    CASE item.t = "obj" -> [exc |-> "none", val |-> HasKey(item, repeat_item)]
      [] item.t = "arr" ->
           [exc |-> "none", val |-> \E i \in 1..Len(item.kv) : item.kv[i].v = StrVal(repeat_item)]
      [] item.t = "str" -> [exc |-> "none", val |-> str_contains(item.s, repeat_item)]
      [] OTHER          -> [exc |-> "TypeError", val |-> FALSE]

\* the lookup loop of process_create_action; val is None (NullVal) when no
\* item contains repeat_item
RECURSIVE find_workspace(_, _)
find_workspace(items, repeat_item) ==
    IF items = <<>> THEN [exc |-> "none", val |-> NullVal]
    ELSE LET item == Head(items)
             has  == item_contains(item, repeat_item)
         IN  IF has.exc # "none" THEN [exc |-> has.exc, val |-> NullVal]
             ELSE IF has.val
             THEN IF item.t = "obj"
                  THEN [exc |-> "none", val |-> dict_get(item, repeat_item, NullVal)]
                  ELSE [exc |-> "TypeError", val |-> NullVal]
             ELSE find_workspace(Tail(items), repeat_item)

\* process_create_action from the parse to the filtered variables
create_prepare(repeat_item, item_map_str, cloud_project) ==
    LET parsed == safe_json_parse(item_map_str)
    IN  IF parsed.err # "none" THEN Failed("ValueError")
        ELSE IF iter_items(parsed.val).exc # "none" THEN Failed(iter_items(parsed.val).exc)
        ELSE LET found == find_workspace(iter_items(parsed.val).items, repeat_item)
             IN  IF found.exc # "none" THEN Failed(found.exc)
                 ELSE IF ~Truthy(found.val) THEN Failed("ValueError")
                 ELSE IF found.val.t # "obj" THEN Failed("AttributeError")
                 ELSE [exc |-> "none",
                       current_component |-> <<>>,
                       connector |-> replace_hyphen(cloud_project),
                       module_name |-> dict_get(found.val, K_module_name, StrVal(<<>>)),
                       resource_name |-> dict_get(found.val, K_resource_name, StrVal(<<>>)),
                       resource_type |-> dict_get(found.val, K_type, StrVal(<<>>)),
                       filtered |-> filter_keys(found.val, CreateDropKeys)]

\* f"{resource_type}_{resource_name}_{deployment_name}{iteration}"
resource_name_raw(resource_type, resource_name, deployment_name, iteration) ==
    py_str(resource_type) \o <<"_">> \o py_str(resource_name) \o <<"_">>
        \o deployment_name \o IntToStr(iteration)

Export(key, value) == [key |-> key, value |-> value]

\* the export_env_var calls of process_delete_action, in order
delete_exports(current_component) ==
    <<Export("RESOURCE_NAME", StrVal(current_component)),
      Export("ENTITY_ID", StrVal(current_component))>>

\* the export_env_var calls of process_update_action, in order
update_exports(prep, repeat_item, asset_id) ==
    <<Export("RESOURCE_NAME", StrVal(prep.current_component)),
      Export("ENTITY_ID", StrVal(prep.current_component)),
      Export("WORKSPACE_NAME", StrVal(repeat_item)),
      Export("ASSET_ID", StrVal(asset_id)),
      Export("TERRAFORM_VARS", StrVal(json_dumps(prep.filtered))),
      Export("CONNECTOR", StrVal(prep.connector)),
      Export("MODULE_NAME", prep.module_name)>>

\* the variables serialised without the tags
create_merged_untagged(prep, tags) == prep.filtered

\* filtered_terraform_vars['cdk_std_tags'] = tags_map
create_merged(prep, tags) == dict_set(prep.filtered, K_cdk_std_tags, tags)

\* the export_env_var calls of process_create_action, in order
create_exports(prep, tags, repeat_item, asset_id, deployment_name, iteration) ==
    LET name == normalize_name(resource_name_raw(prep.resource_type, prep.resource_name,
                                                 deployment_name, iteration))
    IN  <<Export("WORKSPACE_NAME", StrVal(repeat_item)),
          Export("ASSET_ID", StrVal(asset_id)),
          Export("TERRAFORM_VARS", StrVal(json_dumps(create_merged(prep, tags)))),
          Export("CONNECTOR", StrVal(prep.connector)),
          Export("MODULE_NAME", prep.module_name),
          Export("RESOURCE_NAME", StrVal(name)),
          Export("ENTITY_ID", StrVal(name))>>

\* entity_ref always the bare scope
common_exports_bare_scope(org_identifier, project_identifier, resource_owner, entity_id) ==
    LET entity_scope == S_account \o <<".">> \o org_identifier \o <<".">> \o project_identifier
    IN  <<Export("RESOURCE_OWNER", StrVal(resource_owner)),
          Export("ENTITY_SCOPE", StrVal(entity_scope)),
          Export("ENTITY_REF", StrVal(entity_scope))>>

\* entity_scope, entity_ref and the three common export_env_var calls
common_exports(org_identifier, project_identifier, resource_owner, entity_id) ==
    LET entity_scope == S_account \o <<".">> \o org_identifier \o <<".">> \o project_identifier
        entity_ref   == IF entity_id # <<>> THEN entity_scope \o <<"/">> \o entity_id
                        ELSE entity_scope
    IN  <<Export("RESOURCE_OWNER", StrVal(resource_owner)),
          Export("ENTITY_SCOPE", StrVal(entity_scope)),
          Export("ENTITY_REF", StrVal(entity_ref))>>

\* the iteration parse of main: int(iteration_str), 0 for a Harness expression
parse_iteration(iteration_str) ==
    IF int_parse(iteration_str).ok THEN [exc |-> "none", val |-> int_parse(iteration_str).val]
    ELSE IF startswith_expr(iteration_str) THEN [exc |-> "none", val |-> 0]
    ELSE [exc |-> "ValueError", val |-> 0]

ValidActions == {S_create, S_update, S_delete}

\* `if action not in valid_actions and not action.startswith('<+')`
action_rejected(action) == action \notin ValidActions /\ ~startswith_expr(action)

\* the except clauses of main
exit_code_for(exc_type) ==
    CASE exc_type = "KeyboardInterrupt" -> 130
      [] exc_type = "ValueError"        -> 2
      [] OTHER                          -> 1

----------------------------------------------------------------------------
(* Bounds and the inputs of a run *)

\* iteration inputs range over -NegIterations .. MaxIteration
MaxIteration == 2

NegIterations == 3

\* retry_attempts of a direct call of fetch_tags_from_api
MaxRetryAttempts == 4

FixedDroneFile ==
    <<"/","d","r","o","n","e","/","s","r","c","/","o","u","t","p","u","t",".","e","n",
      "v">>

FallbackDroneFile ==
    <<"/","t","m","p","/","d","r","o","n","e","_","o","u","t","p","u","t","s",".","e",
      "n","v">>

In_a ==
    <<"a">>

In_list ==
    <<"a",","," ","B","-","c">>

In_ws1 ==
    <<"w","s","1">>

In_other ==
    <<"o","t","h","e","r">>

In_asset ==
    <<"A","1">>

In_cloud ==
    <<"p","-","1">>

In_dep ==
    <<"d","e","p">>

In_org ==
    <<"o","1">>

In_proj ==
    <<"p","r">>

In_owner ==
    <<"m","e">>

In_bogus ==
    <<"b","o","g","u","s">>

In_vpc ==
    <<"v","p","c">>

In_net1 ==
    <<"n","e","t","1">>

In_network ==
    <<"n","e","t","w","o","r","k">>

In_NetWork ==
    <<"N","e","t","-","W","o","r","k">>

In_extra ==
    <<"e","x","t","r","a">>

In_env ==
    <<"e","n","v">>

In_prod ==
    <<"p","r","o","d">>

In_out ==
    <<"/","o">>

In_step ==
    <<"/","s">>

In_xws1y ==
    <<"x","w","s","1","y">>

Set(name, vals) == {name :> v : v \in vals}

\* the variable is either one of vals or not in the environment
Opt(name, vals) == Set(name, vals) \cup {<<>>}

Merge(a, b) == {x @@ y : x \in a, y \in b}

\* a list whose second entry is empty
In_a_blank == <<"a", ",">>

IterationInputs ==
    {IntToStr(i) : i \in (0 - NegIterations)..MaxIteration} \cup {<<"x">>}

Entry1 ==
    Obj(<<KV(K_module_name, StrVal(In_vpc)), KV(K_cloud_project, StrVal(In_cloud)),
          KV(K_connector, StrVal(<<"c">>)), KV(K_type, StrVal(In_NetWork)),
          KV(K_show_advanced, NumVal(1)), KV(K_resource_name, StrVal(<<"N","-","1">>))>>)

EntryNul == Obj(<<KV(K_module_name, StrVal(<<"m", NUL>>)), KV(<<"x">>, NumVal(1))>>)

EntryExample ==
    Obj(<<KV(K_module_name, StrVal(In_vpc)), KV(K_resource_name, StrVal(In_net1)),
          KV(K_type, StrVal(In_network)), KV(In_extra, StrVal(<<"x">>))>>)

\* a workspace object that has a cdk_std_tags key of its own
EntryTagged ==
    Obj(<<KV(K_module_name, StrVal(In_vpc)),
          KV(K_cdk_std_tags, Obj(<<KV(<<"o">>, StrVal(<<"1">>))>>)),
          KV(K_resource_name, StrVal(In_net1)), KV(K_type, StrVal(In_network))>>)

Entries(items) == Obj(<<KV(K_entries, items)>>)

ResourceConfigInputs ==
    {JsonText(Entries(Arr(<<Entry1, EntryNul>>))),
     JsonText(Entries(Arr(<<EntryExample>>))),
     JsonText(Entries(Arr(<<NumVal(5)>>))),
     JsonText(Entries(NumVal(5))),
     JsonText(Arr(<<>>)),
     HugeText(Entries(Arr(<<Entry1>>))),
     BadText(5),
     BlankText(0)}

ItemMapInputs ==
    {JsonText(Arr(<<Obj(<<KV(In_other, Entry1)>>), Obj(<<KV(In_ws1, EntryExample)>>)>>)),
     JsonText(Arr(<<Obj(<<KV(In_ws1, Entry1)>>)>>)),
     JsonText(Arr(<<Obj(<<KV(In_ws1, EntryNul)>>)>>)),
     JsonText(Arr(<<Obj(<<KV(In_ws1, EntryTagged)>>)>>)),
     JsonText(Arr(<<Obj(<<KV(In_other, Entry1)>>)>>)),
     JsonText(Arr(<<Obj(<<KV(In_ws1, EmptyDict)>>)>>)),
     JsonText(Arr(<<Obj(<<KV(In_ws1, StrVal(<<"s">>))>>)>>)),
     JsonText(Arr(<<NumVal(5)>>)),
     JsonText(Arr(<<StrVal(In_xws1y)>>)),
     JsonText(Obj(<<KV(In_ws1, EntryExample)>>)),
     HugeText(Arr(<<Obj(<<KV(In_ws1, EntryExample)>>)>>)),
     BadText(5),
     BlankText(2)}

DeleteInputs ==
    Merge(Set("action", {S_delete}),
    Merge(Opt("component_name", {In_a, In_list, In_a_blank}),
          Opt("iteration", IterationInputs)))

UpdateBase ==
    ("action" :> S_update) @@ ("component_name" :> In_list) @@ ("iteration" :> <<"0">>)
    @@ ("repeat_item" :> In_ws1) @@ ("asset_id" :> In_asset) @@ ("cloud_project" :> In_cloud)
    @@ ("resource_config" :> JsonText(Entries(Arr(<<Entry1, EntryNul>>))))
    @@ ("org_identifier" :> In_org) @@ ("project_identifier" :> In_proj)
    @@ ("resource_owner" :> In_owner)

CreateBase ==
    ("action" :> S_create) @@ ("iteration" :> <<"0">>) @@ ("deployment_name" :> In_dep)
    @@ ("repeat_item" :> In_ws1) @@ ("asset_id" :> In_asset) @@ ("cloud_project" :> In_cloud)
    @@ ("item_map" :> JsonText(Arr(<<Obj(<<KV(In_other, Entry1)>>),
                                     Obj(<<KV(In_ws1, EntryExample)>>)>>)))
    @@ ("org_identifier" :> In_org) @@ ("project_identifier" :> In_proj)
    @@ ("resource_owner" :> In_owner)

\* base with the variables of names removed
Without(base, names) == [n \in (DOMAIN base) \ names |-> base[n]]

\* base with one variable changed
With(base, name, vals) == {(name :> v) @@ base : v \in vals}

UpdateInputs ==
    {(i @@ r) @@ Without(UpdateBase, {"iteration", "resource_config"}) :
        i \in Opt("iteration", IterationInputs),
        r \in Opt("resource_config", ResourceConfigInputs)}
    \cup {Without(UpdateBase, {n}) : n \in DOMAIN UpdateBase \ {"action"}}
    \cup {Without(UpdateBase, (DOMAIN UpdateBase) \ {"action"})}
    \cup With(UpdateBase, "asset_id", {<<>>, <<" ">>})
    \cup With(("iteration" :> <<"1">>) @@ UpdateBase, "asset_id", {<<>>})
    \cup With(UpdateBase, "component_name", {In_a})

CreateInputs ==
    With(CreateBase, "item_map", ItemMapInputs)
    \cup With(CreateBase, "iteration", IterationInputs)
    \cup {Without(CreateBase, {n}) : n \in DOMAIN CreateBase}
    \cup {Without(CreateBase, DOMAIN CreateBase)}
    \cup With(CreateBase, "asset_id", {<<>>, <<" ">>})
    \cup With(CreateBase, "action", {<<"<", "+", "a", ">">>})

\* names are strings of at most MaxNameLen characters of NameAlphabet,
\* and the spec's example
MaxNameLen == 3

NameAlphabet == {"A", "Z", "a", "z", "-", "_"}

In_FooBar == <<"F", "o", "o", "-", "B", "a", "r">>

NameInputs ==
    UNION {[1..n -> NameAlphabet] : n \in 0..MaxNameLen} \cup {In_FooBar}

\* the texts safe_json_parse is called with directly: those of the runs,
\* and texts at and over the size limit
ParseInputs ==
    ResourceConfigInputs \cup ItemMapInputs
    \cup {BlankText(MaxJsonSize + 1), BlankText(1), HugeText(Malformed),
          [size |-> MaxJsonSize, blank |-> FALSE, decoded |-> Arr(<<>>)],
          [size |-> MaxJsonSize, blank |-> FALSE, decoded |-> Malformed],
          JsonText(NumVal(5)), JsonText(NullVal), JsonText(StrVal(<<"s">>))}

\* the labels main's workflows pass
ConfigNames == {"resource configuration", "item map"}

\* the environments a run of main starts in
MainInputs ==
    DeleteInputs \cup UpdateInputs \cup CreateInputs \cup {("action" :> In_bogus)}

\* what the remote inventory API can answer to one request
TagsBody ==
    JsonText(Arr(<<Obj(<<KV(K_properties, Obj(<<KV(K_tags,
        Obj(<<KV(In_env, StrVal(In_prod)), KV(<<"n">>, NullVal),
              KV(<<" ">>, StrVal(<<"d">>)), KV(<<"k">>, NumVal(5))>>))>>))>>)>>))

Responses ==
    {UrlError, SocketTimeout, HttpError(400), HttpError(404), HttpError(500),
     HttpResponse(204, NoBody),
     HttpResponse(200, BadText(3)),
     HttpResponse(200, TagsBody),
     HttpResponse(200, JsonText(Arr(<<>>))),
     HttpResponse(200, JsonText(Arr(<<Obj(<<KV(K_properties, StrVal(<<"x">>))>>)>>))),
     HttpResponse(200, JsonText(Obj(<<KV(<<"a">>, NumVal(1))>>)))}

----------------------------------------------------------------------------
(* State *)

VARIABLES
    entry,         \* the function this run started in
    pc,            \* where the run is
    environ,       \* os.environ: name -> value, only the names that are set
    outputs,       \* output_manager.outputs: key -> str
    locals,        \* local variables of main and of the running workflow
    pending,       \* export_env_var calls the running function still makes
    fetch,         \* call frame of fetch_tags_from_api
    tags_map,      \* value fetch_tags_from_api returned
    net_attempts,  \* urlopen calls made so far in this run
    sink,          \* call frame of write_drone_outputs
    exc,           \* the exception that ended the run, type "none" if none
    exit_code      \* exit_code of main

vars ==
    <<entry, pc, environ, outputs, locals, pending, fetch, tags_map,
      net_attempts, sink, exc, exit_code>>

NoFrame ==
    [asset_id |-> <<>>, retry_attempts |-> 0, attempt |-> 0, trace |-> <<>>,
     caller |-> "none"]

NoSink == [files |-> <<>>, idx |-> 0, success_count |-> 0, tried |-> <<>>, written |-> <<>>]

NoExc == [type |-> "none", site |-> "none"]

NoLocals == ("workflow" :> "none") @@ ("stage" :> "workflow")

Attempted(resp) == [ev |-> "attempt", resp |-> resp, secs |-> 0]

Slept(secs) == [ev |-> "sleep", resp |-> UrlError, secs |-> secs]

\* os.environ.get(name, default)
environ_get(name, default) == IF name \in DOMAIN environ THEN environ[name] ELSE default

\* local variable
L(name) == locals[name]

\* bind local variables
Bind(new) == locals' = new @@ locals

\* an exception of type e leaves function site and reaches main's handlers
Raise(e, site) ==
    /\ pc' = "except"
    /\ exc' = [type |-> e, site |-> site]

InitMain ==
    /\ entry = "main"
    /\ pc = "main"
    /\ environ \in MainInputs
    /\ fetch = NoFrame
    /\ locals = NoLocals

InitCall ==
    /\ entry = "fetch_tags_from_api"
    /\ pc = "fetch_entry"
    /\ environ = <<>>
    /\ \E a \in {In_asset, <<>>, <<" ">>}, n \in 1..MaxRetryAttempts :
          fetch = [NoFrame EXCEPT !.asset_id = a, !.retry_attempts = n, !.caller = "direct"]
    /\ locals = NoLocals

\* a direct call of normalize_name, its result normalised once more
InitNormalize ==
    /\ entry = "normalize_name"
    /\ pc = "normalize_name"
    /\ environ = <<>>
    /\ fetch = NoFrame
    /\ \E x \in NameInputs : locals = ("name" :> x) @@ ("returned" :> <<>>) @@ NoLocals

\* a direct call of safe_json_parse
InitParse ==
    /\ entry = "safe_json_parse"
    /\ pc = "safe_json_parse"
    /\ environ = <<>>
    /\ fetch = NoFrame
    /\ \E doc \in ParseInputs, name \in ConfigNames :
          locals = ("json_str" :> doc) @@ ("config_name" :> name) @@ NoLocals

Init ==
    /\ InitMain \/ InitCall \/ InitNormalize \/ InitParse
    /\ outputs = <<>>
    /\ pending = <<>>
    /\ tags_map = EmptyDict
    /\ net_attempts = 0
    /\ sink = NoSink
    /\ exc = NoExc
    /\ exit_code = 0

----------------------------------------------------------------------------
(* main, up to the workflow call *)

\* lines 753-795: read and validate action, read the common variables
MainStart ==
    /\ pc = "main"
    /\ LET action == environ_get("action", DefaultAction)
       IN  IF action_rejected(action)
           THEN /\ Raise("ValueError", "main")
                /\ UNCHANGED locals
           ELSE /\ Bind(("action" :> action)
                        @@ ("org_identifier" :> environ_get("org_identifier", DefaultOrgIdentifier))
                        @@ ("project_identifier" :>
                                environ_get("project_identifier", DefaultProjectIdentifier))
                        @@ ("resource_owner" :> environ_get("resource_owner", DefaultResourceOwner)))
                /\ pc' = "dispatch"
                /\ UNCHANGED exc
    /\ UNCHANGED <<entry, environ, outputs, pending, fetch, tags_map, net_attempts, sink,
                   exit_code>>

\* the workflow main selects: delete, update, anything else is create
selected_workflow(action) ==
    IF action = S_delete THEN "delete" ELSE IF action = S_update THEN "update" ELSE "create"

\* the variables each branch of main reads with os.environ.get
workflow_inputs(wf) ==
    CASE wf = "delete" -> {"component_name"}
      [] wf = "update" -> {"component_name", "repeat_item", "asset_id", "resource_config",
                           "cloud_project"}
      [] OTHER         -> {"repeat_item", "item_map", "asset_id", "cloud_project",
                           "deployment_name"}

\* the default each os.environ.get of a workflow input falls back to
default_of(name) ==
    CASE name = "component_name"  -> DefaultComponentName
      [] name = "repeat_item"     -> DefaultRepeatItem
      [] name = "asset_id"        -> DefaultAssetId
      [] name = "cloud_project"   -> DefaultCloudProject
      [] name = "deployment_name" -> DefaultDeploymentName
      [] name = "resource_config" -> DefaultResourceConfig
      [] OTHER                    -> DefaultItemMap

\* lines 798-811, 817-833, 845-862: read the inputs of the selected workflow
ReadInputs ==
    /\ pc = "dispatch"
    /\ LET wf == selected_workflow(L("action"))
           it == parse_iteration(environ_get("iteration", DefaultIteration))
       IN  IF it.exc # "none"
           THEN /\ Raise(it.exc, "main")
                /\ UNCHANGED locals
           ELSE /\ Bind(("workflow" :> wf) @@ ("iteration" :> it.val)
                        @@ [n \in workflow_inputs(wf) |-> environ_get(n, default_of(n))])
                /\ pc' = wf
                /\ UNCHANGED exc
    /\ UNCHANGED <<entry, environ, outputs, pending, fetch, tags_map, net_attempts, sink,
                   exit_code>>

----------------------------------------------------------------------------
(* The workflows *)

CallFetch(asset_id, caller) ==
    /\ fetch' = [NoFrame EXCEPT !.asset_id = asset_id,
                                !.retry_attempts = DefaultRetryAttempts,
                                !.caller = caller]
    /\ pc' = "fetch_entry"

\* process_delete_action, lines 579-594
ProcessDelete ==
    /\ pc = "delete"
    /\ LET comp == select_component(L("component_name"), L("iteration"))
       IN  IF comp.exc # "none"
           THEN /\ Raise(comp.exc, "process_delete_action")
                /\ UNCHANGED pending
           ELSE /\ pending' = delete_exports(comp.val)
                /\ pc' = "export"
                /\ UNCHANGED exc
    /\ UNCHANGED <<entry, environ, outputs, locals, fetch, tags_map, net_attempts, sink,
                   exit_code>>

\* process_update_action, lines 611-651: validation, then the fetch call
ProcessUpdate ==
    /\ pc = "update"
    /\ LET prep == update_prepare(L("component_name"), L("iteration"),
                                  L("resource_config"), L("cloud_project"))
       IN  IF prep.exc # "none"
           THEN /\ Raise(prep.exc, "process_update_action")
                /\ UNCHANGED <<locals, fetch>>
           ELSE /\ Bind("prep" :> prep)
                /\ CallFetch(L("asset_id"), "update")
                /\ UNCHANGED exc
    /\ UNCHANGED <<entry, environ, outputs, pending, tags_map, net_attempts, sink, exit_code>>

\* process_update_action, lines 653-662
UpdateExport ==
    /\ pc = "update_export"
    /\ pending' = update_exports(L("prep"), L("repeat_item"), L("asset_id"))
    /\ pc' = "export"
    /\ UNCHANGED <<entry, environ, outputs, locals, fetch, tags_map, net_attempts, sink, exc,
                   exit_code>>

\* process_create_action, lines 679-714: validation, then the fetch call
ProcessCreate ==
    /\ pc = "create"
    /\ LET prep == create_prepare(L("repeat_item"), L("item_map"), L("cloud_project"))
       IN  IF prep.exc # "none"
           THEN /\ Raise(prep.exc, "process_create_action")
                /\ UNCHANGED <<locals, fetch>>
           ELSE /\ Bind("prep" :> prep)
                /\ CallFetch(L("asset_id"), "create")
                /\ UNCHANGED exc
    /\ UNCHANGED <<entry, environ, outputs, pending, tags_map, net_attempts, sink, exit_code>>

\* process_create_action, lines 716-741
CreateExport ==
    /\ pc = "create_export"
    /\ pending' = create_exports(L("prep"), tags_map, L("repeat_item"), L("asset_id"),
                                 L("deployment_name"), L("iteration"))
    /\ pc' = "export"
    /\ UNCHANGED <<entry, environ, outputs, locals, fetch, tags_map, net_attempts, sink, exc,
                   exit_code>>

----------------------------------------------------------------------------
(* fetch_tags_from_api *)

Return(tags) ==
    /\ tags_map' = tags
    /\ pc' = "fetch_return"

\* lines 448-455: the blank check and the loop entry
FetchEntry ==
    /\ pc = "fetch_entry"
    /\ IF fetch.asset_id = <<>> \/ strip(fetch.asset_id) = <<>>
       THEN Return(EmptyDict)
       ELSE IF fetch.retry_attempts > 0
       THEN pc' = "fetch_attempt" /\ UNCHANGED tags_map
       ELSE Return(EmptyDict)
    /\ UNCHANGED <<entry, environ, outputs, locals, pending, fetch, net_attempts, sink, exc,
                   exit_code>>

\* lines 456-554: one request and its handling
FetchAttempt ==
    /\ pc = "fetch_attempt"
    /\ \E resp \in Responses :
          LET r == attempt_result(resp)
              logged == [fetch EXCEPT !.trace = Append(@, Attempted(resp))]
          IN  /\ net_attempts' = net_attempts + 1
              /\ CASE r.act = "return" -> fetch' = logged /\ Return(r.tags)
                   [] r.act = "break"  -> fetch' = logged /\ Return(EmptyDict)
                   [] OTHER ->
                        IF should_backoff(fetch.attempt, fetch.retry_attempts)
                        THEN /\ fetch' = logged
                             /\ pc' = "fetch_backoff"
                             /\ UNCHANGED tags_map
                        ELSE IF loop_continues(fetch.attempt, fetch.retry_attempts)
                        THEN /\ fetch' = [logged EXCEPT !.attempt = @ + 1]
                             /\ pc' = "fetch_attempt"
                             /\ UNCHANGED tags_map
                        ELSE fetch' = logged /\ Return(EmptyDict)
    /\ UNCHANGED <<entry, environ, outputs, locals, pending, sink, exc, exit_code>>

\* lines 555-557, then the next iteration of the for loop or lines 559-562
FetchBackoff ==
    /\ pc = "fetch_backoff"
    /\ IF loop_continues(fetch.attempt, fetch.retry_attempts)
       THEN /\ fetch' = [fetch EXCEPT !.trace = Append(@, Slept(wait_time(fetch.attempt))),
                                      !.attempt = @ + 1]
            /\ pc' = "fetch_attempt"
            /\ UNCHANGED tags_map
       ELSE /\ fetch' = [fetch EXCEPT !.trace = Append(@, Slept(wait_time(fetch.attempt)))]
            /\ Return(EmptyDict)
    /\ UNCHANGED <<entry, environ, outputs, locals, pending, net_attempts, sink, exc,
                   exit_code>>

\* the return to the caller; the frame is gone
FetchReturn ==
    /\ pc = "fetch_return"
    /\ fetch' = NoFrame
    /\ pc' = CASE fetch.caller = "update" -> "update_export"
               [] fetch.caller = "create" -> "create_export"
               [] OTHER                   -> "done"
    /\ UNCHANGED <<entry, environ, outputs, locals, pending, tags_map, net_attempts, sink, exc,
                   exit_code>>

----------------------------------------------------------------------------
(* export_env_var and DroneOutputManager *)

\* os.environ[key] = value raises ValueError for a value the environment
\* cannot hold (embedded null byte)
environ_rejects(value) == HasNul(value)

\* export_env_var(name, value) with add_output(key, value): lines 411-441, 219-258
ExportEnvVar ==
    /\ pc = "export"
    /\ pending # <<>>
    /\ LET key   == Head(pending).key
           value == py_str(Head(pending).value)
       IN  /\ outputs' = (key :> value) @@ outputs
           /\ IF environ_rejects(value)
              THEN /\ Raise("ValueError", "export_env_var")
                   /\ UNCHANGED <<environ, pending>>
              ELSE /\ environ' = (key :> value) @@ environ
                   /\ pending' = Tail(pending)
                   /\ pc' = IF Tail(pending) # <<>> THEN "export"
                            ELSE IF L("stage") = "common" THEN "finalize" ELSE "common"
                   /\ UNCHANGED exc
    /\ UNCHANGED <<entry, locals, fetch, tags_map, net_attempts, sink, exit_code>>

\* main, lines 877-893
ExportCommon ==
    /\ pc = "common"
    /\ pending' = common_exports(L("org_identifier"), L("project_identifier"),
                                 L("resource_owner"), environ_get("ENTITY_ID", <<>>))
    /\ Bind("stage" :> "common")
    /\ pc' = "export"
    /\ UNCHANGED <<entry, environ, outputs, fetch, tags_map, net_attempts, sink, exc, exit_code>>

\* the values DRONE_OUTPUT and DRONE_STEP_ENV can have; <<>> is unset
DroneOutputValues == {<<>>, In_out}

DroneStepEnvValues == {<<>>, In_step}

\* finalize_outputs and write_drone_outputs, lines 303-307, 260-275.  The two
\* variables are read nowhere else, so what they hold is chosen at the read.
WriteStart ==
    /\ pc = "finalize"
    /\ IF outputs = <<>>
       THEN pc' = "finalized" /\ UNCHANGED sink
       ELSE /\ \E o \in DroneOutputValues, s \in DroneStepEnvValues :
                  sink' = [NoSink EXCEPT !.files = <<o, s, FixedDroneFile, FallbackDroneFile>>,
                                         !.idx = 1]
            /\ pc' = "write"
    /\ UNCHANGED <<entry, environ, outputs, locals, pending, fetch, tags_map, net_attempts, exc,
                   exit_code>>

\* the loop left at the first write that fails
WriteDroneFile_stops_at_failure ==
    /\ pc = "write"
    /\ sink.idx <= Len(sink.files)
    /\ LET drone_file == sink.files[sink.idx]
       IN  \/ /\ drone_file = <<>>
              /\ sink' = [sink EXCEPT !.idx = @ + 1]
           \/ /\ drone_file # <<>>
              /\ \E ok \in BOOLEAN :
                    sink' = [sink EXCEPT !.idx = IF ok THEN @ + 1 ELSE Len(sink.files) + 1,
                                         !.tried = Append(@, drone_file),
                                         !.success_count = IF ok THEN @ + 1 ELSE @,
                                         !.written = IF ok THEN Append(@, drone_file) ELSE @]
    /\ UNCHANGED <<entry, pc, environ, outputs, locals, pending, fetch, tags_map, net_attempts,
                   exc, exit_code>>

\* one iteration of `for drone_file in drone_files`, lines 277-296
WriteDroneFile ==
    /\ pc = "write"
    /\ sink.idx <= Len(sink.files)
    /\ LET drone_file == sink.files[sink.idx]
       IN  \/ /\ drone_file = <<>>
              /\ sink' = [sink EXCEPT !.idx = @ + 1]
           \/ /\ drone_file # <<>>
              /\ \E ok \in BOOLEAN :
                    sink' = [sink EXCEPT !.idx = @ + 1,
                                         !.tried = Append(@, drone_file),
                                         !.success_count = IF ok THEN @ + 1 ELSE @,
                                         !.written = IF ok THEN Append(@, drone_file) ELSE @]
    /\ UNCHANGED <<entry, pc, environ, outputs, locals, pending, fetch, tags_map, net_attempts,
                   exc, exit_code>>

\* end of the loop: write_drone_outputs returns
WriteEnd ==
    /\ pc = "write"
    /\ sink.idx > Len(sink.files)
    /\ pc' = "finalized"
    /\ UNCHANGED <<entry, environ, outputs, locals, pending, fetch, tags_map, net_attempts,
                   sink, exc, exit_code>>

\* lines 309-319 and 899-906, 937-941: validation, banner, return exit_code
MainReturn ==
    /\ pc = "finalized"
    /\ pc' = "done"
    /\ UNCHANGED <<entry, environ, outputs, locals, pending, fetch, tags_map, net_attempts,
                   sink, exc, exit_code>>

\* lines 908-941: the except clauses of main set the exit code
MainExcept ==
    /\ pc = "except"
    /\ exit_code' = exit_code_for(exc.type)
    /\ pc' = "done"
    /\ UNCHANGED <<entry, environ, outputs, locals, pending, fetch, tags_map, net_attempts,
                   sink, exc>>

\* SIGINT: KeyboardInterrupt is raised wherever the run is
Interrupt ==
    /\ entry = "main"
    /\ pc \notin {"except", "done"}
    /\ Raise("KeyboardInterrupt", "signal")
    /\ UNCHANGED <<entry, environ, outputs, locals, pending, fetch, tags_map, net_attempts,
                   sink, exit_code>>

\* normalize_name(name), then normalize_name of what it returned
NormalizeName ==
    /\ pc = "normalize_name"
    /\ LET arg == IF L("returned") = <<>> THEN L("name")
                  ELSE L("returned")[Len(L("returned"))]
       IN  Bind("returned" :> Append(L("returned"), normalize_name(arg)))
    /\ pc' = IF Len(L("returned")) = 0 THEN "normalize_name" ELSE "done"
    /\ UNCHANGED <<entry, environ, outputs, pending, fetch, tags_map, net_attempts, sink, exc,
                   exit_code>>

\* safe_json_parse(json_str, config_name), called directly
SafeJsonParse ==
    /\ pc = "safe_json_parse"
    /\ LET parsed == safe_json_parse(L("json_str"))
       IN  IF parsed.err = "none"
           THEN /\ Bind("returned" :> parsed.val)
                /\ UNCHANGED exc
           ELSE /\ Bind("error" :> parse_error(parsed.err, L("config_name")))
                /\ exc' = [type |-> "ValueError", site |-> "safe_json_parse"]
    /\ pc' = "done"
    /\ UNCHANGED <<entry, environ, outputs, pending, fetch, tags_map, net_attempts, sink,
                   exit_code>>

Next ==
    \/ NormalizeName
    \/ SafeJsonParse
    \/ MainStart
    \/ ReadInputs
    \/ ProcessDelete
    \/ ProcessUpdate
    \/ UpdateExport
    \/ ProcessCreate
    \/ CreateExport
    \/ FetchEntry
    \/ FetchAttempt
    \/ FetchBackoff
    \/ FetchReturn
    \/ ExportEnvVar
    \/ ExportCommon
    \/ WriteStart
    \/ WriteDroneFile
    \/ WriteEnd
    \/ MainReturn
    \/ MainExcept
    \/ Interrupt

Spec == Init /\ [][Next]_vars

----------------------------------------------------------------------------
(* Properties.  The helpers below restate what the documentation says in   *)
(* its own terms; they do not use the operators that model the code.       *)

\* the positions that delimit the comma-separated entries of s
Cuts(s) == {0, Len(s) + 1} \cup {i \in 1..Len(s) : s[i] = ","}

EntryCount(s) == Cardinality(Cuts(s)) - 1

\* the entry at zero-based position n, untrimmed
EntryAt(s, n) ==
    LET lo == CHOOSE c \in Cuts(s) : Cardinality({d \in Cuts(s) : d < c}) = n
        hi == CHOOSE c \in Cuts(s) : Cardinality({d \in Cuts(s) : d < c}) = n + 1
    IN  SubSeq(s, lo + 1, hi - 1)

\* t without its leading and trailing whitespace
Trimmed(t) ==
    LET solid == {i \in 1..Len(t) : t[i] \notin Whitespace}
    IN  IF solid = {} THEN <<>>
        ELSE SubSeq(t, CHOOSE i \in solid : \A j \in solid : i <= j,
                       CHOOSE i \in solid : \A j \in solid : i >= j)

\* key k is in the output set and in the process environment with value v
Published(k, v) ==
    /\ k \in DOMAIN outputs /\ outputs[k] = v
    /\ k \in DOMAIN environ /\ environ[k] = v

\* key k is in neither
Unrecorded(k) == k \notin DOMAIN outputs /\ k \notin DOMAIN environ

\* the run is one of main in which workflow wf was selected
Running(wf) == entry = "main" /\ L("workflow") = wf

\* the selected workflow has made all its export_env_var calls
WorkflowComplete ==
    /\ exc.type = "none"
    /\ \/ pc = "common"
       \/ L("stage") = "common"

\* the selected workflow ended with exception type e
WorkflowFailed(e) ==
    /\ exc.type = e
    /\ exc.site \in {"process_delete_action", "process_update_action",
                     "process_create_action", "export_env_var"}
    /\ L("stage") = "workflow"

\* C1: in the delete workflow, with 0 <= iteration < number of entries the
\* published RESOURCE_NAME and ENTITY_ID are both the trimmed entry at
\* position iteration; with iteration >= number of entries the workflow
\* fails with a ValidationError and records neither variable.
C1_DeletePublishesSelectedEntry ==
    Running("delete") =>
        LET list == L("component_name")
            it   == L("iteration")
        IN  /\ (0 <= it /\ it < EntryCount(list)) =>
                  /\ exc.site # "process_delete_action"
                  /\ \A k \in {"RESOURCE_NAME", "ENTITY_ID"} :
                        /\ k \in DOMAIN outputs => outputs[k] = Trimmed(EntryAt(list, it))
                        /\ k \in DOMAIN environ => environ[k] = Trimmed(EntryAt(list, it))
                  /\ WorkflowComplete =>
                        \A k \in {"RESOURCE_NAME", "ENTITY_ID"} :
                            Published(k, Trimmed(EntryAt(list, it)))
            /\ it >= EntryCount(list) =>
                  /\ Unrecorded("RESOURCE_NAME") /\ Unrecorded("ENTITY_ID")
                  /\ (pc # "delete" /\ exc.site # "signal") =>
                        exc = [type |-> "ValueError", site |-> "process_delete_action"]

\* a delete run that published the second, trimmed entry of "a, B-c"
C1_Witness ==
    /\ Running("delete") /\ pc = "done" /\ exit_code = 0
    /\ L("component_name") = In_list /\ L("iteration") = 1
    /\ Published("RESOURCE_NAME", <<"B", "-", "c">>)
    /\ Published("ENTITY_ID", <<"B", "-", "c">>)

\* the variables each workflow publishes
WorkflowKeys(wf) ==
    IF wf = "delete" THEN {"RESOURCE_NAME", "ENTITY_ID"}
    ELSE {"RESOURCE_NAME", "ENTITY_ID", "WORKSPACE_NAME", "ASSET_ID", "TERRAFORM_VARS",
          "CONNECTOR", "MODULE_NAME"}

\* all of ks or none of ks is in dom
AllOrNone(ks, dom) == ks \cap dom = {} \/ ks \subseteq dom

\* C2: after a workflow (delete, update, create) ended in a validation
\* failure, the output set and the process environment each hold either
\* none or all of that workflow's variables, never a strict non-empty subset.
C2_NoPartialOutput ==
    \A wf \in {"delete", "update", "create"} :
        (Running(wf) /\ WorkflowFailed("ValueError")) =>
            /\ AllOrNone(WorkflowKeys(wf), DOMAIN outputs)
            /\ AllOrNone(WorkflowKeys(wf), DOMAIN environ)

\* the quotation marks of a JSON text that delimit strings: those with an
\* even number of backslashes right before them
Quotes(text) ==
    {j \in 1..Len(text) :
        /\ text[j] = "\""
        /\ LET others == {m \in 1..(j - 1) : text[m] # "\\"}
               last   == IF others = {} THEN 0
                         ELSE CHOOSE m \in others : \A o \in others : o <= m
           IN  (j - 1 - last) % 2 = 0}

\* the names of the members of the outermost object of a JSON text: the
\* strings, opened at nesting depth 1, that a colon follows
TopLevelKeys(text) ==
    LET Q       == Quotes(text)
        outside == {i \in 1..Len(text) :
                       i \notin Q /\ Cardinality({q \in Q : q < i}) % 2 = 0}
        opens   == {i \in outside : text[i] \in {"{", "["}}
        closes  == {i \in outside : text[i] \in {"}", "]"}}
        pairs   == {w \in Q \X Q :
                       /\ w[1] < w[2] /\ w[2] < Len(text)
                       /\ text[w[2] + 1] = ":"
                       /\ \A q \in Q : ~(w[1] < q /\ q < w[2])
                       /\ Cardinality({q \in Q : q < w[1]}) % 2 = 0
                       /\ Cardinality({i \in opens : i < w[1]})
                             - Cardinality({i \in closes : i < w[1]}) = 1}
    IN  {SubSeq(text, w[1] + 1, w[2] - 1) : w \in pairs}

\* the update or create run ended with exit code 0
Succeeded(wf) == Running(wf) /\ pc = "done" /\ exit_code = 0

\* C3 as stated: in every successful update and create run the published
\* TERRAFORM_VARS has none of module_name, cloud_project, connector, type,
\* show_advanced at its top level.
C3_Original ==
    \A wf \in {"update", "create"} :
        Succeeded(wf) =>
            TopLevelKeys(environ["TERRAFORM_VARS"])
                \cap {K_module_name, K_cloud_project, K_connector, K_type, K_show_advanced} = {}

\* C3, amended: in every successful update run the published TERRAFORM_VARS
\* has none of module_name, cloud_project, type, show_advanced at its top
\* level, and in every successful create run none of module_name, connector,
\* type, show_advanced.
C3_FilteredKeysPerWorkflow ==
    /\ Succeeded("update") =>
          /\ outputs["TERRAFORM_VARS"] = environ["TERRAFORM_VARS"]
          /\ TopLevelKeys(environ["TERRAFORM_VARS"])
                \cap {K_module_name, K_cloud_project, K_type, K_show_advanced} = {}
    /\ Succeeded("create") =>
          /\ outputs["TERRAFORM_VARS"] = environ["TERRAFORM_VARS"]
          /\ TopLevelKeys(environ["TERRAFORM_VARS"])
                \cap {K_module_name, K_connector, K_type, K_show_advanced} = {}

\* a successful update run whose selected entry held all five names
C3_Witness ==
    /\ Succeeded("update")
    /\ L("resource_config").decoded = Entries(Arr(<<Entry1, EntryNul>>))
    /\ L("iteration") = 0
    /\ TopLevelKeys(environ["TERRAFORM_VARS"]) = {K_connector, K_resource_name}

\* the requests of the call in progress, oldest first
AttemptsMade == SelectSeq(fetch.trace, LAMBDA e : e.ev = "attempt")

\* the backoff delays of the call in progress, oldest first
Delays == SelectSeq(fetch.trace, LAMBDA e : e.ev = "sleep")

\* a connection error, a timeout or an undecodable body
NetworkLevelError(resp) ==
    \/ resp.kind \in {"URLError", "timeout"}
    \/ resp.kind = "response" /\ resp.code = 200 /\ resp.body.decoded.t = "malformed"

\* the tag set the inventory holds in TagsBody, as a TagSet: values as
\* strings, null as the empty string, the blank key dropped
ExpectedTags ==
    Obj(<<KV(In_env, StrVal(In_prod)), KV(<<"n">>, StrVal(<<>>)), KV(<<"k">>, StrVal(<<"5">>))>>)

\* C4: with a non-blank asset id, if the first k attempts fail with a
\* network-level error and attempt k+1 returns HTTP 200 with tags, k below
\* the maximum, then exactly k backoff delays occur, of 1, 2, ..., 2^(k-1)
\* seconds in that order, each between two consecutive attempts, and the
\* returned map is the tag set of attempt k+1.
C4_BackoffThenTags ==
    pc = "fetch_return" =>
        LET n == Len(AttemptsMade)
        IN  (/\ n >= 1
             /\ \A i \in 1..(n - 1) : NetworkLevelError(AttemptsMade[i].resp)
             /\ AttemptsMade[n].resp = HttpResponse(200, TagsBody)) =>
                /\ n <= fetch.retry_attempts
                /\ Len(fetch.trace) = 2 * n - 1
                /\ \A i \in 1..n : fetch.trace[2 * i - 1].ev = "attempt"
                /\ \A i \in 1..(n - 1) :
                      fetch.trace[2 * i].ev = "sleep" /\ fetch.trace[2 * i].secs = 2 ^ (i - 1)
                /\ tags_map = ExpectedTags

\* two network errors, then the tags on the third attempt
C4_Witness ==
    /\ pc = "fetch_return"
    /\ Len(AttemptsMade) = 3
    /\ AttemptsMade[1].resp = UrlError
    /\ AttemptsMade[2].resp = SocketTimeout
    /\ AttemptsMade[3].resp = HttpResponse(200, TagsBody)
    /\ [i \in 1..Len(Delays) |-> Delays[i].secs] = <<1, 2>>
    /\ tags_map = ExpectedTags

\* an HTTP client error
ClientError(resp) == resp.kind = "HTTPError" /\ resp.code >= 400 /\ resp.code <= 499

\* C5: an attempt that receives an HTTP 4xx error is the last event of the
\* call: no attempt and no backoff delay follows it, and the call returns
\* the empty map.
C5_ClientErrorEndsLoop ==
    \A i \in 1..Len(fetch.trace) :
        (fetch.trace[i].ev = "attempt" /\ ClientError(fetch.trace[i].resp)) =>
            /\ i = Len(fetch.trace)
            /\ tags_map = Obj(<<>>)
            /\ pc \in {"fetch_return", "except", "done"}

\* a 404 on the third attempt of a call allowed four
C5_Witness ==
    /\ pc = "fetch_return"
    /\ fetch.retry_attempts = 4
    /\ Len(AttemptsMade) = 3
    /\ AttemptsMade[3].resp = HttpError(404)
    /\ Len(Delays) = 2

\* the attempt produced a tag set
ProducedTags(resp) ==
    resp.kind = "response" /\ resp.code = 200 /\ resp.body.decoded.t \notin {"malformed"}

\* C6: whatever the attempts' outcomes, a call makes at most retry_attempts
\* requests and its loop is over after the last of them, it never sleeps
\* after its final attempt, it never raises, and it returns the empty map
\* when no attempt produced a tag set; a run of main makes at most
\* retry_attempts requests and no run ends with an exception out of the
\* tag fetch: a run that made requests and was not interrupted ends with
\* exit code 0 unless an export failed.
C6_FetchNeverFails ==
    /\ Len(AttemptsMade) <= fetch.retry_attempts
    /\ Len(AttemptsMade) = fetch.retry_attempts => pc \notin {"fetch_backoff"}
    /\ Len(Delays) <= Len(AttemptsMade)
    /\ pc = "fetch_attempt" => Len(Delays) = Len(AttemptsMade)
    /\ pc = "fetch_return" =>
          /\ fetch.trace # <<>> => fetch.trace[Len(fetch.trace)].ev = "attempt"
          /\ Len(Delays) = Len(AttemptsMade) - (IF fetch.trace = <<>> THEN 0 ELSE 1)
          /\ (\A i \in 1..Len(AttemptsMade) : ~ProducedTags(AttemptsMade[i].resp)) =>
                tags_map = Obj(<<>>)
    /\ pc \in {"fetch_entry", "fetch_attempt", "fetch_backoff", "fetch_return"} =>
          exc.type = "none"
    /\ exc.site # "fetch_tags_from_api"
    /\ entry = "main" => net_attempts <= DefaultRetryAttempts
    /\ (entry = "main" /\ pc = "done" /\ net_attempts > 0) =>
          \/ exit_code = 0
          \/ exit_code = 130 /\ exc.type = "KeyboardInterrupt"
          \/ exit_code = 2 /\ exc.site = "export_env_var"

\* a run of main whose three requests all failed and that ended with 0
C6_Witness ==
    /\ entry = "main" /\ pc = "done" /\ exit_code = 0
    /\ net_attempts = 3
    /\ tags_map = Obj(<<>>)
    /\ L("workflow") = "create"

\* C7 as stated: with an empty or whitespace-only asset id the call returns
\* the empty map with no request and no delay, and the enclosing update or
\* create workflow completes and publishes all of its variables.
C7_BlankAssetIdStillPublishes ==
    \A wf \in {"update", "create"} :
        (Running(wf) /\ Trimmed(L("asset_id")) = <<>>) =>
            /\ net_attempts = 0
            /\ fetch.trace = <<>>
            /\ tags_map = Obj(<<>>)
            /\ pc \notin {"fetch_attempt", "fetch_backoff"}
            /\ (pc = "done" /\ exc.type # "KeyboardInterrupt" /\ "prep" \in DOMAIN locals) =>
                  /\ WorkflowKeys(wf) \subseteq DOMAIN outputs
                  /\ WorkflowKeys(wf) \subseteq DOMAIN environ

\* the run of main reached its return and was not interrupted
Ended == entry = "main" /\ pc = "done" /\ exc.type # "KeyboardInterrupt"

\* the item map text decodes, and the decoded document holds no object
\* that has repeat_item as a key
NoWorkspaceObject(text, repeat_item) ==
    LET parsed == safe_json_parse(text)
    IN  /\ parsed.err = "none"
        /\ ~(parsed.val.t = "obj" /\ HasKey(parsed.val, repeat_item))
        /\ \A i \in 1..Len(parsed.val.kv) :
              ~(parsed.val.kv[i].v.t = "obj" /\ HasKey(parsed.val.kv[i].v, repeat_item))

\* C8 as stated: in the create workflow, when the parsed item map holds no
\* object with the workspace name as a key, the workflow fails with a
\* ValueError, the run ends with exit code 2 and the output set is empty.
C8_WorkspaceNotFound ==
    (Running("create") /\ Ended /\ NoWorkspaceObject(L("item_map"), L("repeat_item"))) =>
        /\ exc.type = "ValueError"
        /\ exc.site = "process_create_action"
        /\ exit_code = 2
        /\ DOMAIN outputs = {}

\* C9 as stated: main returns 0 exactly when nothing failed, 130 when
\* interrupted, and 2 for every failure of the input validation of main
\* and of the workflows (bad action, non-integer or out-of-range iteration,
\* malformed or wrongly shaped configuration, workspace not found), never
\* 1 or 0 for those.
C9_ExitCodeByOutcome ==
    (entry = "main" /\ pc = "done") =>
        /\ exit_code = 0 <=> exc.type = "none"
        /\ exc.type = "KeyboardInterrupt" => exit_code = 130
        /\ exc.site \in {"main", "process_delete_action", "process_update_action",
                         "process_create_action"} => exit_code = 2
        /\ exit_code \in {0, 1, 2, 130}

\* the inputs each action requires
RequiredInputs(wf) ==
    CASE wf = "delete" -> {"component_name", "iteration"}
      [] wf = "update" -> {"component_name", "iteration", "repeat_item", "asset_id",
                           "resource_config", "cloud_project"}
      [] OTHER         -> {"repeat_item", "item_map", "asset_id", "cloud_project",
                           "deployment_name", "iteration"}

\* C10 as stated: a run in which an input required for the selected action
\* is absent from the environment ends with a ValueError and exit code 2
\* and records no outputs.
C10_MissingInputAborts ==
    \A wf \in {"delete", "update", "create"} :
        (Running(wf) /\ Ended /\ RequiredInputs(wf) \ DOMAIN environ # {}) =>
            /\ exc.type = "ValueError"
            /\ exit_code = 2
            /\ DOMAIN outputs = {}

\* the text "cdk_std_tags":<tags>, as json.dumps writes a member
TagMember(tags) == JsonQuote(K_cdk_std_tags) \o <<":">> \o json_dumps(tags)

\* C11 as stated: in every successful update and create run the published
\* TERRAFORM_VARS has the key cdk_std_tags at its top level, holding the
\* tag set this run's tag fetch returned.
C11_BlobIsTagMerged ==
    \A wf \in {"update", "create"} :
        Succeeded(wf) =>
            /\ "TERRAFORM_VARS" \in DOMAIN outputs
            /\ K_cdk_std_tags \in TopLevelKeys(outputs["TERRAFORM_VARS"])
            /\ str_contains(outputs["TERRAFORM_VARS"], TagMember(tags_map))

\* the workspace object the create run selects: the value under repeat_item
\* of the first element of the item map that is an object with that key
WorkspaceEntry ==
    LET doc  == L("item_map").decoded
        hits == {i \in 1..Len(doc.kv) :
                    doc.kv[i].v.t = "obj" /\ HasKey(doc.kv[i].v, L("repeat_item"))}
        first == CHOOSE i \in hits : \A j \in hits : i <= j
    IN  IF doc.t = "arr" /\ hits # {}
        THEN dict_get(doc.kv[first].v, L("repeat_item"), NullVal)
        ELSE NullVal

\* the value of key k of the selected workspace object
EntryValue(k) == dict_get(WorkspaceEntry, k, NullVal)

\* a successful create run whose workspace object holds module_name,
\* resource_name and type as strings, with an empty tag response
CreateCase ==
    /\ Succeeded("create")
    /\ tags_map = Obj(<<>>)
    /\ WorkspaceEntry.t = "obj"
    /\ \A k \in {K_module_name, K_resource_name, K_type} :
          HasKey(WorkspaceEntry, k) /\ EntryValue(k).t = "str"

\* lower case, hyphens as underscores
Normalized(s) == [j \in 1..Len(s) |-> IF s[j] = "-" THEN "_" ELSE LowerChar(s[j])]

\* normalize(type + "_" + resource_name + "_" + d + i)
ExpectedEntityId ==
    Normalized(EntryValue(K_type).s \o <<"_">> \o EntryValue(K_resource_name).s \o <<"_">>
               \o L("deployment_name") \o IntToStr(L("iteration")))

\* the members of the workspace object that the create workflow keeps
RemainingMembers ==
    SelectSeq(WorkspaceEntry.kv,
              LAMBDA m : m.k \notin {K_module_name, K_connector, K_type, K_show_advanced})

EmptyTagsMember == [k |-> K_cdk_std_tags, v |-> Obj(<<>>)]

\* C12 as stated: in the create case ENTITY_ID and RESOURCE_NAME are the
\* normalised type_resourcename_deployment+iteration, and the published
\* JSON is the remaining members in their order followed by cdk_std_tags
\* mapped to the empty object.
C12_Original ==
    CreateCase =>
        /\ Published("ENTITY_ID", ExpectedEntityId)
        /\ Published("RESOURCE_NAME", ExpectedEntityId)
        /\ outputs["TERRAFORM_VARS"] =
              json_dumps(Obj(Append(RemainingMembers, EmptyTagsMember)))

\* C12, amended: as above, but cdk_std_tags is appended after the remaining
\* members only when the workspace object has no cdk_std_tags key; when it
\* has one, the key keeps its position and its value becomes the empty
\* object.
C12_CreateEntityAndBlob ==
    CreateCase =>
        /\ Published("ENTITY_ID", ExpectedEntityId)
        /\ Published("RESOURCE_NAME", ExpectedEntityId)
        /\ outputs["TERRAFORM_VARS"] =
              json_dumps(Obj(IF HasKey(WorkspaceEntry, K_cdk_std_tags)
                             THEN [j \in 1..Len(RemainingMembers) |->
                                      IF RemainingMembers[j].k = K_cdk_std_tags
                                      THEN EmptyTagsMember ELSE RemainingMembers[j]]
                             ELSE Append(RemainingMembers, EmptyTagsMember)))

\* the example run: entity id network_net1_dep0, keys resource_name,
\* extra, cdk_std_tags in that order
C12_Witness ==
    /\ CreateCase
    /\ WorkspaceEntry = EntryExample
    /\ Published("ENTITY_ID", <<"n","e","t","w","o","r","k","_","n","e","t","1","_","d","e","p","0">>)
    /\ outputs["TERRAFORM_VARS"] =
          <<"{","\"","r","e","s","o","u","r","c","e","_","n","a","m","e","\"",":","\"",
            "n","e","t","1","\"",",","\"","e","x","t","r","a","\"",":","\"","x","\"",
            ",","\"","c","d","k","_","s","t","d","_","t","a","g","s","\"",":","{","}",
            "}">>

\* the results of the direct normalize_name calls, oldest first
Returned == IF entry = "normalize_name" THEN L("returned") ELSE <<>>

\* C13: normalize_name returns its input with every upper-case letter
\* lower-cased and every hyphen replaced by an underscore, of the same
\* length (Foo-Bar gives foo_bar), and normalising the result again
\* returns the same string.
C13_NormalizeIdempotent ==
    /\ Len(Returned) >= 1 =>
          LET x == L("name")
              y == Returned[1]
          IN  /\ Len(y) = Len(x)
              /\ \A i \in 1..Len(x) :
                    y[i] = CASE x[i] = "-" -> "_"
                             [] x[i] = "A" -> "a"
                             [] x[i] = "Z" -> "z"
                             [] x[i] = "F" -> "f"
                             [] x[i] = "B" -> "b"
                             [] OTHER      -> x[i]
              /\ x = In_FooBar => y = <<"f", "o", "o", "_", "b", "a", "r">>
    /\ Len(Returned) >= 2 => Returned[2] = Returned[1]

\* A-z normalised to a_z, and a_z normalised to itself
C13_Witness ==
    /\ entry = "normalize_name" /\ pc = "done"
    /\ L("name") = <<"A", "-", "z">>
    /\ Returned = <<<<"a", "_", "z">>, <<"a", "_", "z">>>>

\* every recorded key is in the process environment with the same value
OutputsMirrored ==
    \A k \in DOMAIN outputs : k \in DOMAIN environ /\ environ[k] = outputs[k]

\* no step removes a recorded key
OutputsGrow == DOMAIN outputs \subseteq DOMAIN outputs'

Candidates == SelectSeq(sink.files, LAMBDA f : f # <<>>)

\* finalize_outputs is running or has returned
Finalizing == entry = "main" /\ pc \in {"finalize", "write", "finalized"}

\* finalize_outputs has returned
Finalized == entry = "main" /\ (pc = "finalized" \/ (pc = "done" /\ exc.type = "none"))

\* what holds in every state of and after finalize, whichever writes failed
FinalizeTolerant ==
    /\ Finalizing => exc.type = "none"
    /\ exc.site \notin {"finalize_outputs", "write_drone_outputs"}
    /\ Finalized =>
          /\ exit_code = 0
          /\ outputs # <<>> =>
                /\ sink.tried = Candidates
                /\ Len(Candidates) >= 2
                /\ sink.success_count = Len(sink.written)
                /\ sink.success_count <= Len(sink.tried)

\* no step of finalize changes the output set or the process environment
FinalizeReadsOnly == Finalizing => (outputs' = outputs /\ environ' = environ)

\* C15: whichever candidate sinks fail to be written, all of them or none,
\* with or without DRONE_OUTPUT and DRONE_STEP_ENV configured, finalize
\* raises nothing, every configured candidate is tried in order, also
\* after a failed one, the output set and the process environment stay as
\* they were, and the run ends with exit code 0.
C15_SinkFailuresTolerated == []FinalizeTolerant /\ [][FinalizeReadsOnly]_vars

\* a run in which all four candidates were tried and every write failed
C15_Witness ==
    /\ entry = "main" /\ pc = "done" /\ exit_code = 0
    /\ Len(sink.tried) = 4
    /\ sink.written = <<>>
    /\ OutputsMirrored
    /\ outputs # <<>>

\* "account.<org>.<project>" of this run
ExpectedScope ==
    <<"a", "c", "c", "o", "u", "n", "t", ".">> \o L("org_identifier") \o <<".">>
        \o L("project_identifier")

\* the common variables have been recorded: finalize may start, is running
\* or is over
CommonRecorded ==
    /\ entry = "main"
    /\ exc.type = "none"
    /\ pc \in {"finalize", "write", "finalized", "done"}

\* C16: in every successful run, once the workflow's and the common
\* variables are recorded and from before finalize on, ENTITY_SCOPE is
\* account.<org>.<project> and ENTITY_REF is <scope>/<entity id> with the
\* ENTITY_ID this run's workflow recorded, or the bare scope when that
\* entity id is empty.
C16_EntityRefFromThisRun ==
    CommonRecorded =>
        /\ "ENTITY_ID" \in DOMAIN outputs
        /\ Published("ENTITY_SCOPE", ExpectedScope)
        /\ Published("ENTITY_REF",
                     IF outputs["ENTITY_ID"] = <<>> THEN ExpectedScope
                     ELSE ExpectedScope \o <<"/">> \o outputs["ENTITY_ID"])

\* an update run that recorded entity id B-c and the reference to it
C16_Witness ==
    /\ Succeeded("update")
    /\ outputs["ENTITY_ID"] = <<"B", "-", "c">>
    /\ outputs["ENTITY_REF"] = <<"a", "c", "c", "o", "u", "n", "t", ".", "o", "1", ".", "p", "r",
                                 "/", "B", "-", "c">>

\* a delete run whose entity id is empty records the bare scope
C16_BareScopeReached ==
    /\ Succeeded("delete")
    /\ outputs["ENTITY_ID"] = <<>>
    /\ outputs["ENTITY_REF"] = ExpectedScope

\* the direct call of safe_json_parse has returned or raised
Parsed == entry = "safe_json_parse" /\ pc = "done"

\* the call raised a ValueError that names the label it was given
ParseFailed ==
    /\ exc.type = "ValueError"
    /\ "returned" \notin DOMAIN locals
    /\ "error" \in DOMAIN locals
    /\ L("error").config_name = L("config_name")

\* the call returned v
ParseReturned(v) ==
    /\ exc.type = "none"
    /\ "returned" \in DOMAIN locals
    /\ L("returned") = v

\* the text is neither blank nor decodable within the limit
Undecodable(doc) ==
    /\ ~(doc.size = 0 \/ doc.blank)
    /\ doc.size > 1048576 \/ doc.decoded.t = "malformed"

\* C17: safe_json_parse returns the empty object for an empty or blank
\* text, whatever its size; otherwise fails for a text of more than
\* 1048576 characters, whatever it holds; otherwise fails for malformed
\* JSON; otherwise returns the decoded value; each failure is a ValueError
\* naming the label, and a run whose workflow reaches the parse of such a
\* text ends with ValueError and exit code 2.
C17_ParseClassification ==
    /\ Parsed =>
          LET doc == L("json_str")
          IN  IF doc.size = 0 \/ doc.blank THEN ParseReturned(Obj(<<>>))
              ELSE IF doc.size > 1048576 THEN ParseFailed
              ELSE IF doc.decoded.t = "malformed" THEN ParseFailed
              ELSE ParseReturned(doc.decoded)
    /\ (Running("create") /\ Ended /\ Undecodable(L("item_map"))) =>
          exc.type = "ValueError" /\ exit_code = 2
    /\ (Running("update") /\ Ended /\ Undecodable(L("resource_config"))
            /\ exc.type # "IndexError"
            /\ L("iteration") < EntryCount(L("component_name"))) =>
          exc.type = "ValueError" /\ exit_code = 2

\* a blank text over the size limit parsed to the empty object
C17_Witness ==
    /\ Parsed
    /\ L("json_str").blank /\ L("json_str").size > 1048576
    /\ ParseReturned(Obj(<<>>))

\* an update run that reached the parse of an oversized text
C17_RunReached ==
    /\ Running("update") /\ Ended
    /\ L("resource_config").size > 1048576
    /\ L("iteration") = 0
    /\ exit_code = 2

\* the workflow whose process_*_action function has been called, or "none"
Executing == IF entry = "main" THEN L("workflow") ELSE "none"

\* the value of the action input, or the empty string when it is absent
ActionInput == IF "action" \in DOMAIN environ THEN environ["action"] ELSE <<>>

\* a workflow runs only under its own action value, and a run whose action
\* is none of create, update, delete runs no workflow, records nothing and
\* ends with a ValueError
ActionSelectsWorkflow ==
    entry = "main" =>
        /\ Executing = "create" => ActionInput = <<"c", "r", "e", "a", "t", "e">>
        /\ Executing = "update" => ActionInput = <<"u", "p", "d", "a", "t", "e">>
        /\ Executing = "delete" => ActionInput = <<"d", "e", "l", "e", "t", "e">>
        /\ ActionInput \notin {<<"c", "r", "e", "a", "t", "e">>, <<"u", "p", "d", "a", "t", "e">>,
                               <<"d", "e", "l", "e", "t", "e">>} =>
              /\ Executing = "none"
              /\ outputs = <<>>
              /\ (pc = "done" /\ exc.type # "KeyboardInterrupt") =>
                    exc.type = "ValueError" /\ exit_code = 2

\* once a workflow runs, no other one does
OneWorkflow == Executing # "none" => Executing' = Executing

\* C18 as stated: in every run at most one workflow executes and it is the
\* one the action input names; for an action value other than create,
\* update and delete no workflow executes, nothing is recorded, and the run
\* ends with a ValueError (exit code 2).
C18_ActionSelectsWorkflow == []ActionSelectsWorkflow /\ [][OneWorkflow]_vars

\* C19 as stated: a run of update or create that ends with a validation
\* failure (ValueError, exit code 2) has made no tag-fetch request and has
\* recorded no output, and a delete run never makes a request.
C19_ValidationBeforeFetch ==
    /\ \A wf \in {"update", "create"} :
          (Running(wf) /\ Ended /\ exc.type = "ValueError") =>
              /\ exit_code = 2
              /\ net_attempts = 0
              /\ outputs = <<>>
    /\ Running("delete") =>
          /\ net_attempts = 0
          /\ pc \notin {"fetch_entry", "fetch_attempt", "fetch_backoff", "fetch_return"}

\* C20 as stated: once one candidate sink has been written successfully no
\* later candidate is tried, so at most one sink receives the output set.
C20_FirstAvailableSink ==
    /\ Len(sink.written) <= 1
    /\ sink.written # <<>> => sink.tried[Len(sink.tried)] = sink.written[1]

\* C21 as stated: in the delete and update workflows, for every integer
\* iteration main accepts, negative ones included, something is recorded
\* only when 0 <= iteration < number of entries, and then RESOURCE_NAME is
\* the entry at that zero-based position; a run with an iteration outside
\* that range ends with a ValueError and exit code 2 and records nothing.
C21_IterationRange ==
    \A wf \in {"delete", "update"} :
        Running(wf) =>
            LET i == L("iteration")
                n == EntryCount(L("component_name"))
            IN  /\ "RESOURCE_NAME" \in DOMAIN outputs =>
                      /\ 0 <= i /\ i < n
                      /\ outputs["RESOURCE_NAME"] = Trimmed(EntryAt(L("component_name"), i))
                /\ (Ended /\ (i < 0 \/ i >= n)) =>
                      /\ exc.type = "ValueError"
                      /\ exit_code = 2
                      /\ outputs = <<>>

====
